---------------------------- MODULE Spec2Model ----------------------------
(***************************************************************************)
(* Model of pseudo-georeference (src/src/main.rs).                         *)
(*                                                                         *)
(* Two specifications:                                                     *)
(*   Spec      the batch driver: main, pseudo_georef, read_image_size and  *)
(*             the sidecar files they write.                               *)
(*   SpecCalc  RefBox::new and RefBox::world_file_values as pure           *)
(*             functions of a raster size and a world extent.              *)
(*                                                                         *)
(* f64 values are modelled as exact rationals (sign, numerator,            *)
(* denominator) together with the IEEE-754 specials +inf, -inf and NaN.    *)
(* Rounding of finite results is not modelled (its relative size, 2^-53,   *)
(* is far below every tolerance used here); the sign of zero is not        *)
(* modelled either (the only divisors are casts of unsigned integers and   *)
(* quotients of them, which are never -0).  TLC's integers have 32 bits,   *)
(* so numerators and denominators are naturals in base 10000, least        *)
(* significant limb first.                                                 *)
(***************************************************************************)
EXTENDS Integers, Sequences, FiniteSets, TLC

----------------------------------------------------------------------------
(* Natural numbers of arbitrary size. *)

Base == 100 * 100

RECURSIVE Big(_)
Big(n) == IF n = 0 THEN << >> ELSE <<n % Base>> \o Big(n \div Base)

RECURSIVE NatNorm(_)
NatNorm(s) ==
    IF s = << >> THEN << >>
    ELSE IF s[Len(s)] = 0 THEN NatNorm(SubSeq(s, 1, Len(s) - 1))
    ELSE s

Limb(s) == IF s = << >> THEN 0 ELSE Head(s)

Rest(s) == IF s = << >> THEN << >> ELSE Tail(s)

RECURSIVE NatAddC(_, _, _)
NatAddC(a, b, c) ==
    IF a = << >> /\ b = << >> THEN (IF c = 0 THEN << >> ELSE <<c>>)
    ELSE LET x == Limb(a) + Limb(b) + c
         IN  <<x % Base>> \o NatAddC(Rest(a), Rest(b), x \div Base)

NatAdd(a, b) == NatAddC(a, b, 0)

RECURSIVE NatSubB(_, _, _)
NatSubB(a, b, c) ==
    IF a = << >> THEN << >>
    ELSE LET x == Limb(a) - Limb(b) - c
         IN  IF x < 0 THEN <<x + Base>> \o NatSubB(Rest(a), Rest(b), 1)
             ELSE <<x>> \o NatSubB(Rest(a), Rest(b), 0)

\* a - b for a >= b
NatSub(a, b) == NatNorm(NatSubB(a, b, 0))

RECURSIVE NatMulLimb(_, _, _)
NatMulLimb(a, x, c) ==
    IF a = << >> THEN (IF c = 0 THEN << >> ELSE <<c>>)
    ELSE LET p == Head(a) * x + c
         IN  <<p % Base>> \o NatMulLimb(Tail(a), x, p \div Base)

Shift(s) == IF s = << >> THEN << >> ELSE <<0>> \o s

RECURSIVE NatMul(_, _)
NatMul(a, b) ==
    IF a = << >> \/ b = << >> THEN << >>
    ELSE NatAdd(NatNorm(NatMulLimb(a, Head(b), 0)), Shift(NatMul(a, Tail(b))))

RECURSIVE NatCmpAt(_, _, _)
NatCmpAt(a, b, i) ==
    IF i = 0 THEN 0
    ELSE IF a[i] < b[i] THEN -1
    ELSE IF a[i] > b[i] THEN 1
    ELSE NatCmpAt(a, b, i - 1)

\* -1, 0, 1 as a < b, a = b, a > b
NatCmp(a, b) ==
    IF Len(a) < Len(b) THEN -1
    ELSE IF Len(a) > Len(b) THEN 1
    ELSE NatCmpAt(a, b, Len(a))

----------------------------------------------------------------------------
(* f64: finite rationals and the IEEE-754 specials. *)

NaN == [k |-> "nan"]

Inf(neg) == [k |-> "inf", neg |-> neg]

\* n/d with the common factors of Base removed
RECURSIVE Reduce(_, _)
Reduce(n, d) ==
    IF n = << >> THEN <<n, <<1>>>>
    ELSE IF Head(n) = 0 /\ Head(d) = 0 THEN Reduce(Tail(n), Tail(d))
    ELSE <<n, d>>

Fin(neg, n, d) ==
    LET r == Reduce(n, d)
    IN  [k |-> "fin", neg |-> (neg /\ n # << >>), n |-> r[1], d |-> r[2]]

Zero == Fin(FALSE, << >>, <<1>>)

IsNaN(a) == a.k = "nan"

IsZero(a) == a.k = "fin" /\ a.n = << >>

is_finite(a) == a.k = "fin"

\* `n as f64` for an unsigned integer n
AsF64(n) == Fin(FALSE, Big(n), <<1>>)

\* a decimal literal given in hundredths
Centi(c) == Fin(c < 0, Big(IF c < 0 THEN -c ELSE c), Big(100))

FNeg(a) ==
    CASE a.k = "nan" -> NaN
      [] a.k = "inf" -> Inf(~a.neg)
      [] OTHER -> Fin(~a.neg, a.n, a.d)

abs(a) ==
    CASE a.k = "nan" -> NaN
      [] a.k = "inf" -> Inf(FALSE)
      [] OTHER -> Fin(FALSE, a.n, a.d)

\* sum of two finite values
FinAdd(a, b) ==
    LET x == NatMul(a.n, b.d)
        y == NatMul(b.n, a.d)
        d == NatMul(a.d, b.d)
    IN  IF a.neg = b.neg THEN Fin(a.neg, NatAdd(x, y), d)
        ELSE IF NatCmp(x, y) >= 0 THEN Fin(a.neg, NatSub(x, y), d)
        ELSE Fin(b.neg, NatSub(y, x), d)

FAdd(a, b) ==
    CASE a.k = "nan" \/ b.k = "nan" -> NaN
      [] a.k = "inf" /\ b.k = "inf" -> IF a.neg = b.neg THEN a ELSE NaN
      [] a.k = "inf" /\ b.k = "fin" -> a
      [] a.k = "fin" /\ b.k = "inf" -> b
      [] OTHER -> FinAdd(a, b)

FSub(a, b) == FAdd(a, FNeg(b))

FMul(a, b) ==
    CASE a.k = "nan" \/ b.k = "nan" -> NaN
      [] (a.k = "inf" /\ IsZero(b)) \/ (IsZero(a) /\ b.k = "inf") -> NaN
      [] a.k = "inf" \/ b.k = "inf" -> Inf(a.neg # b.neg)
      [] OTHER -> Fin(a.neg # b.neg, NatMul(a.n, b.n), NatMul(a.d, b.d))

FDiv(a, b) ==
    CASE a.k = "nan" \/ b.k = "nan" -> NaN
      [] a.k = "inf" /\ b.k = "inf" -> NaN
      [] a.k = "inf" -> Inf(a.neg # b.neg)
      [] b.k = "inf" -> Zero
      [] IsZero(b) -> IF IsZero(a) THEN NaN ELSE Inf(a.neg)
      [] OTHER -> Fin(a.neg # b.neg, NatMul(a.n, b.d), NatMul(a.d, b.n))

\* -1, 0, 1 for two finite values
FinCmp(a, b) ==
    IF a.neg /\ ~b.neg THEN -1
    ELSE IF ~a.neg /\ b.neg THEN 1
    ELSE LET c == NatCmp(NatMul(a.n, b.d), NatMul(b.n, a.d))
         IN  IF a.neg THEN -c ELSE c

\* -1, 0, 1 for two values that are not NaN
FCmp(a, b) ==
    CASE a.k = "inf" /\ b.k = "inf" ->
            IF a.neg = b.neg THEN 0 ELSE IF a.neg THEN -1 ELSE 1
      [] a.k = "inf" -> IF a.neg THEN -1 ELSE 1
      [] b.k = "inf" -> IF b.neg THEN 1 ELSE -1
      [] OTHER -> FinCmp(a, b)

FGt(a, b) == ~IsNaN(a) /\ ~IsNaN(b) /\ FCmp(a, b) = 1

FLe(a, b) == ~IsNaN(a) /\ ~IsNaN(b) /\ FCmp(a, b) <= 0

FGe(a, b) == ~IsNaN(a) /\ ~IsNaN(b) /\ FCmp(a, b) >= 0

FEq(a, b) == ~IsNaN(a) /\ ~IsNaN(b) /\ FCmp(a, b) = 0

Two == AsF64(2)

----------------------------------------------------------------------------
(* The geotransform calculator.  Rust indexes CRS_BBOX from 0, the model   *)
(* from 1: CRS_BBOX[0] of the source is CRS_BBOX[1] here.                  *)

\* static CRS_BBOX, in the order minx, miny, maxx, maxy
CRS_BBOX ==
    <<Centi(-2002637639), Centi(-2004896610),
      Centi(2002637639), Centi(2004896610)>>

\* macro difference!: absolute difference between two values
difference(a, b) == abs(FSub(a, b))

\* std::cmp::partial_min(..).expect("no min"); the operands are never NaN
partial_min(a, b) == IF FLe(a, b) THEN a ELSE b

\* BoundingBox::width
bbox_width(bbox) == difference(bbox.minx, bbox.maxx)

\* BoundingBox::height
bbox_height(bbox) == difference(bbox.miny, bbox.maxy)

None == [some |-> FALSE]

Some(v) == [some |-> TRUE, v |-> v]

extent_world_of(crs) ==
    <<difference(crs[1], crs[3]), difference(crs[2], crs[4])>>

ratio_img_of(w, h) == FDiv(AsF64(w), AsF64(h))

extent_img_of(extent_world, ratio_img) ==
    LET ratio_world == FDiv(extent_world[1], extent_world[2])
    IN  IF FGt(ratio_world, ratio_img)
        THEN <<FDiv(extent_world[1], ratio_img), extent_world[2]>>
        ELSE <<extent_world[1], FDiv(extent_world[2], ratio_img)>>

\* mutant: the centre taken from the first entries instead of the minima
center_world_first(crs, extent_world) ==
    <<FAdd(crs[1], FDiv(extent_world[1], Two)),
      FAdd(crs[2], FDiv(extent_world[2], Two))>>

center_world_of(crs, extent_world) ==
    <<FAdd(partial_min(crs[1], crs[3]), FDiv(extent_world[1], Two)),
      FAdd(partial_min(crs[2], crs[4]), FDiv(extent_world[2], Two))>>

\* RefBox::new, with the world extent it reads from CRS_BBOX as a parameter
RefBoxNew(w, h, crs) ==
    LET extent_world == extent_world_of(crs)
        extent_img   == extent_img_of(extent_world, ratio_img_of(w, h))
        center_world == center_world_of(crs, extent_world)
    IN  [size |-> [width |-> w, height |-> h],
         bbox |-> [minx |-> FSub(center_world[1], FDiv(extent_img[1], Two)),
                   miny |-> FSub(center_world[2], FDiv(extent_img[2], Two)),
                   maxx |-> FAdd(center_world[1], FDiv(extent_img[1], Two)),
                   maxy |-> FAdd(center_world[2], FDiv(extent_img[2], Two))],
         name |-> None,
         filename |-> None]

\* RefBox::world_file_values
world_file_values(refbox) ==
    <<FDiv(bbox_width(refbox.bbox), AsF64(refbox.size.width)),
      Zero,
      Zero,
      FMul(FDiv(bbox_height(refbox.bbox), AsF64(refbox.size.height)),
           FNeg(AsF64(1))),
      refbox.bbox.minx,
      refbox.bbox.maxy>>

----------------------------------------------------------------------------
(* Paths, extensions and the directories of the run.  A file name is a     *)
(* stem and an optional extension, the extension a sequence of characters; *)
(* utf8 tells whether the bytes of the stem are valid UTF-8.               *)

Upper ==
    <<"A", "B", "C", "D", "E", "F", "G", "H", "I", "J", "K", "L", "M",
      "N", "O", "P", "Q", "R", "S", "T", "U", "V", "W", "X", "Y", "Z">>

Lower ==
    <<"a", "b", "c", "d", "e", "f", "g", "h", "i", "j", "k", "l", "m",
      "n", "o", "p", "q", "r", "s", "t", "u", "v", "w", "x", "y", "z">>

\* OwnedAsciiExt::into_ascii_lowercase
into_ascii_lowercase(str) ==
    [i \in DOMAIN str |->
        IF \E j \in DOMAIN Upper : Upper[j] = str[i]
        THEN Lower[CHOOSE j \in DOMAIN Upper : Upper[j] = str[i]]
        ELSE str[i]]

SUPPORTED_FORMAT_EXTS ==
    << <<"j", "p", "g">>,
       <<"j", "p", "e", "g">>,
       <<"p", "n", "g">>,
       <<"g", "i", "f">>,
       <<"t", "i", "f", "f">>,
       <<"t", "i", "f">> >>

is_supported_extension(ext) ==
    IF ~ext.some THEN FALSE
    ELSE LET ext_str_lc == into_ascii_lowercase(ext.v)
         IN  \E i \in DOMAIN SUPPORTED_FORMAT_EXTS :
                SUPPORTED_FORMAT_EXTS[i] = ext_str_lc

\* Path::extension_str; the extensions of the model are ASCII
extension_str(path) == path.ext

\* Path::filestem_str
filestem_str(path) == IF path.utf8 THEN Some(path.stem) ELSE None

\* Path::with_extension: the path with its extension replaced
with_extension(path, e) == [path EXCEPT !.ext = Some(e)]

WLD == <<"w", "l", "d">>

PRJ == <<"p", "r", "j">>

File(dir, stem, ext, utf8) ==
    [dir |-> dir, stem |-> stem, ext |-> ext, utf8 |-> utf8]

\* the directory arguments a run may be given; "f" is not a directory
Args == {"d1", "d2", "d3", "f"}

is_dir(dir) == dir \in {"d1", "d2", "d3"}

\* readdir: the entries of each directory, in listing order
readdir(dir) ==
    CASE dir = "d1" ->
            <<File("d1", "a", Some(<<"j", "p", "g">>), TRUE),
              File("d1", "notes", Some(<<"t", "x", "t">>), TRUE),
              File("d1", "a", Some(<<"P", "N", "G">>), TRUE),
              File("d1", "Makefile", None, TRUE)>>
      [] dir = "d2" ->
            <<File("d2", "b", Some(<<"T", "i", "f">>), TRUE)>>
      [] dir = "d3" ->
            <<File("d3", "e", Some(<<"j", "p", "e", "g">>), FALSE)>>
      [] OTHER -> << >>

\* entites.iter().filter(|&x| is_supported_extension(x.extension_str()))
supported(entites) ==
    SelectSeq(entites, LAMBDA x : is_supported_extension(extension_str(x)))

----------------------------------------------------------------------------
(* The batch driver.                                                       *)

\* bound on the number of directory arguments
MaxArgs == 2

\* the raster sizes the decoders of a run report: a degenerate one, a
\* landscape one and a portrait one
ImageSizes == {<<0, 0>>, <<2, 1>>, <<1, 2>>}

VARIABLES
    free,       \* optmatches.free: the directory arguments
    json,       \* optmatches.opt_present("j")
    pc,         \* position of the run
    di,         \* index of the directory of the outer loop
    entites,    \* the filtered entries of the current directory
    ei,         \* index of the entry of the inner loop
    size,       \* result of the header fast path / of read_image_size
    refbox,     \* the RefBox of the current pseudo_georef call
    wi,         \* number of world file values written so far
    result,     \* what pseudo_georef returned
    refboxes,   \* Vec<RefBox> of the current directory
    fs,         \* sidecar files on disk: path -> content
    json_file,  \* the summary file: None or its content
    cause,      \* why the run panicked
    exit_status,
    \* history, for stating properties only
    fs0,        \* fs when the current pseudo_georef call began
    fast,       \* what the header fast path of that call answered
    full,       \* what the full decode of that call answered, if it ran
    failed,     \* the position at which a try! of that call returned
    owner,      \* path -> the images whose processing created it
    processed,  \* the filename of every record pushed in the run, in order
    summarised, \* the directory indices whose summary file was created
    \* SpecCalc
    c_pc, c_width, c_height, c_crs, c_refbox, c_values

run_vars ==
    <<free, json, pc, di, entites, ei, size, refbox, wi, result, refboxes,
      fs, json_file, cause, exit_status, fs0, fast, full, failed, owner,
      processed, summarised>>

calc_vars == <<c_pc, c_width, c_height, c_crs, c_refbox, c_values>>

vars == <<run_vars, calc_vars>>

Ok(v) == [ok |-> TRUE, v |-> v]

Err(e) == [ok |-> FALSE, e |-> e]

RECURSIVE SeqsUpTo(_, _)
SeqsUpTo(S, n) ==
    IF n = 0 THEN {<< >>}
    ELSE LET T == SeqsUpTo(S, n - 1)
         IN  T \cup {Append(t, x) : t \in {u \in T : Len(u) = n - 1}, x \in S}

\* the path of the entry pseudo_georef is working on
imagepath == entites[ei]

\* f with path p (re)written to hold c
Put(f, p, c) == [q \in DOMAIN f \cup {p} |-> IF q = p THEN c ELSE f[q]]

\* history: path p was created while processing image img
Own(o, p, img) ==
    [q \in DOMAIN o \cup {p} |->
        IF q = p THEN (IF p \in DOMAIN o THEN o[p] ELSE {}) \cup {img}
        ELSE o[q]]

IdleCalc ==
    /\ c_pc = "off" /\ c_width = 0 /\ c_height = 0
    /\ c_crs = CRS_BBOX /\ c_refbox = None /\ c_values = << >>

Init ==
    /\ free \in SeqsUpTo(Args, MaxArgs)
    /\ json \in BOOLEAN
    /\ pc = "main"
    /\ di = 1
    /\ entites = << >>
    /\ ei = 1
    /\ size = None
    /\ refbox = None
    /\ wi = 0
    /\ result = None
    /\ refboxes = << >>
    /\ fs = << >>
    /\ json_file = None
    /\ cause = "none"
    /\ exit_status = 0
    /\ fs0 = << >>
    /\ fast = None
    /\ full = None
    /\ failed = "none"
    /\ owner = << >>
    /\ processed = << >>
    /\ summarised = {}
    /\ IdleCalc

----------------------------------------------------------------------------
(* main *)

args == <<free, json>>

\* main, up to the loop over the directories: no argument prints the usage
Main ==
    /\ pc = "main"
    /\ IF free = << >>
       THEN pc' = "exit" /\ exit_status' = 1
       ELSE pc' = "dir" /\ exit_status' = exit_status
    /\ UNCHANGED <<args, di, entites, ei, size, refbox, wi, result, refboxes,
                   fs, json_file, cause, fs0, fast, full, failed, owner,
                   processed, summarised, calc_vars>>

Panic(why) == pc' = "panic" /\ cause' = why /\ exit_status' = 101

\* head of `for dir in optmatches.free.iter()`: is_dir, readdir, vec!()
DirBegin ==
    /\ pc = "dir"
    /\ IF di > Len(free)
       THEN /\ pc' = "exit"
            /\ UNCHANGED <<cause, exit_status, entites, ei, refboxes>>
       ELSE IF ~is_dir(free[di])
       THEN /\ Panic("not a directory")
            /\ UNCHANGED <<entites, ei, refboxes>>
       ELSE \E readable \in BOOLEAN :
            IF readable
            THEN /\ entites' = supported(readdir(free[di]))
                 /\ ei' = 1
                 /\ refboxes' = << >>
                 /\ pc' = "entity"
                 /\ UNCHANGED <<cause, exit_status>>
            ELSE /\ Panic("could not read directory")
                 /\ UNCHANGED <<entites, ei, refboxes>>
    /\ UNCHANGED <<args, di, size, refbox, wi, result, fs, json_file, fs0,
                   fast, full, failed, owner, processed, summarised,
                   calc_vars>>

\* head of `for entity in ...`: the next call of pseudo_georef, or the
\* end of the loop
EntityNext ==
    /\ pc = "entity"
    /\ IF ei > Len(entites)
       THEN pc' = "json" /\ UNCHANGED <<fs0>>
       ELSE pc' = "read_fast" /\ fs0' = fs
    /\ size' = None /\ refbox' = None /\ wi' = 0 /\ result' = None
    /\ fast' = None /\ full' = None /\ failed' = "none"
    /\ UNCHANGED <<args, di, entites, ei, refboxes, fs, json_file, cause,
                   exit_status, owner, processed, summarised, calc_vars>>

----------------------------------------------------------------------------
(* read_image_size *)

\* what a decoder can answer: dimensions, or an ImageError
Dimensions == {Ok(wh) : wh \in ImageSizes} \cup {Err("Image")}

\* mutant: the error of the fast path is returned as well
match_dimensions_both(dims) == Some(dims)

\* match jpegdecoder.dimensions(): Ok(dims) is returned, Err(_) is ignored
match_dimensions(dims) == IF dims.ok THEN Some(dims) ELSE None

\* the JPEG header fast path
ReadFast ==
    /\ pc = "read_fast"
    /\ \E dims \in Dimensions :
          LET ret == match_dimensions(dims)
          IN  /\ fast' = dims
              /\ IF ret.some
                 THEN size' = ret.v /\ pc' = "size"
                 ELSE size' = size /\ pc' = "read_full"
    /\ UNCHANGED <<args, di, entites, ei, refbox, wi, result, refboxes, fs,
                   json_file, cause, exit_status, fs0, full, failed, owner,
                   processed, summarised, calc_vars>>

\* the fallback: try!(image::open(imagepath)), then img.dimensions()
ReadFull ==
    /\ pc = "read_full"
    /\ \E img \in Dimensions :
          /\ full' = img
          /\ size' = img
          /\ pc' = "size"
    /\ UNCHANGED <<args, di, entites, ei, refbox, wi, result, refboxes, fs,
                   json_file, cause, exit_status, fs0, fast, failed, owner,
                   processed, summarised, calc_vars>>

----------------------------------------------------------------------------
(* pseudo_georef *)

\* try!(e) at position `at`: on Err the function returns it, on Ok it
\* goes on at `next`
try(e, at, next) ==
    IF e.ok THEN [pc |-> next, result |-> None, failed |-> "none"]
    ELSE [pc |-> "ret", result |-> e, failed |-> at]

Go(t) == pc' = t.pc /\ result' = t.result /\ failed' = t.failed

\* mutant: the error of read_image_size is dropped and the sidecars are
\* written all the same
TrySizeLenient ==
    /\ pc = "size"
    /\ pc' = IF size.ok THEN "new" ELSE "create_wld"
    /\ UNCHANGED <<args, di, entites, ei, size, refbox, wi, result, refboxes,
                   fs, json_file, cause, exit_status, fs0, fast, full,
                   failed, owner, processed, summarised, calc_vars>>

\* let (width, height) = try!(read_image_size(imagepath))
TrySize ==
    /\ pc = "size"
    /\ Go(try(size, "size", "new"))
    /\ UNCHANGED <<args, di, entites, ei, size, refbox, wi, refboxes, fs,
                   json_file, cause, exit_status, fs0, fast, full, owner,
                   processed, summarised, calc_vars>>

\* String::from_utf8(imagepath.clone().into_vec())
from_utf8(path) == IF path.utf8 THEN Ok(path) ELSE Err("FromUtf8Error")

\* RefBox::new, refbox.name and refbox.filename
NewRefBox ==
    /\ pc = "new"
    /\ LET r == RefBoxNew(size.v[1], size.v[2], CRS_BBOX)
           f == from_utf8(imagepath)
       IN  /\ refbox' = IF f.ok
                        THEN [r EXCEPT !.name = filestem_str(imagepath),
                                       !.filename = Some(f.v)]
                        ELSE [r EXCEPT !.name = filestem_str(imagepath)]
           /\ Go(try(f, "new", "create_wld"))
    /\ UNCHANGED <<args, di, entites, ei, size, wi, refboxes, fs, json_file,
                   cause, exit_status, fs0, fast, full, owner, processed,
                   summarised, calc_vars>>

\* what an operation on a file can answer
IoResults == {Ok("unit"), Err("Io")}

\* try!(File::create(&imagepath.with_extension("wld")))
CreateWld ==
    /\ pc = "create_wld"
    /\ \E io \in IoResults :
          LET p == with_extension(imagepath, WLD)
          IN  /\ Go(try(io, "create_wld", "write_wld"))
              /\ fs' = IF io.ok THEN Put(fs, p, << >>) ELSE fs
              /\ owner' = IF io.ok THEN Own(owner, p, imagepath) ELSE owner
    /\ wi' = 0
    /\ UNCHANGED <<args, di, entites, ei, size, refbox, refboxes, json_file,
                   cause, exit_status, fs0, fast, full, processed,
                   summarised, calc_vars>>

\* mutant: the result of write_fmt is not looked at
WriteWldUnchecked ==
    /\ pc = "write_wld"
    /\ \E io \in IoResults :
          LET p == with_extension(imagepath, WLD)
              n == world_file_values(refbox)[wi + 1]
          IN  /\ pc' = IF wi + 1 = 6 THEN "create_prj" ELSE "write_wld"
              /\ failed' = IF io.ok THEN failed ELSE "write_wld"
              /\ fs' = IF io.ok THEN Put(fs, p, Append(fs[p], n)) ELSE fs
    /\ wi' = wi + 1
    /\ UNCHANGED <<args, di, entites, ei, size, refbox, result, refboxes,
                   json_file, cause, exit_status, fs0, fast, full, owner,
                   processed, summarised, calc_vars>>

\* one turn of `for n in refbox.world_file_values().iter()`:
\* try!(wld_file.write_fmt(format_args!("{}\n", n))); a line of the file
\* is kept as the value it prints
WriteWld ==
    /\ pc = "write_wld"
    /\ \E io \in IoResults :
          LET p == with_extension(imagepath, WLD)
              n == world_file_values(refbox)[wi + 1]
          IN  /\ Go(try(io, "write_wld",
                        IF wi + 1 = 6 THEN "create_prj" ELSE "write_wld"))
              /\ fs' = IF io.ok THEN Put(fs, p, Append(fs[p], n)) ELSE fs
              /\ wi' = IF io.ok THEN wi + 1 ELSE wi
    /\ UNCHANGED <<args, di, entites, ei, size, refbox, refboxes, json_file,
                   cause, exit_status, fs0, fast, full, owner, processed,
                   summarised, calc_vars>>

\* try!(File::create(&imagepath.with_extension("prj")))
CreatePrj ==
    /\ pc = "create_prj"
    /\ \E io \in IoResults :
          LET p == with_extension(imagepath, PRJ)
          IN  /\ Go(try(io, "create_prj", "write_prj"))
              /\ fs' = IF io.ok THEN Put(fs, p, << >>) ELSE fs
              /\ owner' = IF io.ok THEN Own(owner, p, imagepath) ELSE owner
    /\ UNCHANGED <<args, di, entites, ei, size, refbox, wi, refboxes,
                   json_file, cause, exit_status, fs0, fast, full, processed,
                   summarised, calc_vars>>

\* try!(proj_file.write_str(CRS_WKT)); Ok(refbox)
WritePrj ==
    /\ pc = "write_prj"
    /\ \E io \in IoResults :
          LET p == with_extension(imagepath, PRJ)
              t == try(io, "write_prj", "ret")
          IN  /\ Go([t EXCEPT !.result = IF io.ok THEN Ok(refbox) ELSE @])
              /\ fs' = IF io.ok THEN Put(fs, p, <<"CRS_WKT">>) ELSE fs
    /\ UNCHANGED <<args, di, entites, ei, size, refbox, wi, refboxes,
                   json_file, cause, exit_status, fs0, fast, full, owner,
                   processed, summarised, calc_vars>>

----------------------------------------------------------------------------
(* main, continued *)

\* mutant: a failed image is skipped and the loop goes on
match_georef_skip(res) == "entity"

\* match pseudo_georef(entity): Ok(refbox) is pushed, Err(e) panics
match_georef(res) == IF res.ok THEN "entity" ELSE "panic"

Match ==
    /\ pc = "ret"
    /\ pc' = match_georef(result)
    /\ IF pc' = "panic"
       THEN /\ cause' = "pseudo_georef"
            /\ exit_status' = 101
            /\ UNCHANGED <<refboxes, processed, ei>>
       ELSE /\ refboxes' = IF result.ok THEN Append(refboxes, result.v)
                           ELSE refboxes
            /\ processed' = IF result.ok
                            THEN Append(processed, result.v.filename)
                            ELSE processed
            /\ ei' = ei + 1
            /\ UNCHANGED <<cause, exit_status>>
    /\ UNCHANGED <<args, di, entites, size, refbox, wi, result, fs,
                   json_file, fs0, fast, full, failed, owner, summarised,
                   calc_vars>>

\* if optmatches.opt_present("j"): File::create(&json_path).unwrap(),
\* json::encode(&refboxes), json_file.write_str; then the next directory.
\* The encoder writes a float that is not finite as null and does not fail.
WriteJson ==
    /\ pc = "json"
    /\ IF ~json
       THEN /\ pc' = "dir" /\ di' = di + 1
            /\ UNCHANGED <<json_file, summarised, cause, exit_status>>
       ELSE \E created \in IoResults, written \in IoResults :
            IF ~created.ok
            THEN /\ Panic("could not create json file")
                 /\ UNCHANGED <<json_file, summarised, di>>
            ELSE /\ summarised' = summarised \cup {di}
                 /\ IF written.ok
                    THEN /\ json_file' = Some(refboxes)
                         /\ pc' = "dir" /\ di' = di + 1
                         /\ UNCHANGED <<cause, exit_status>>
                    ELSE /\ json_file' = Some(<<"truncated">>)
                         /\ Panic("could not write to json file")
                         /\ UNCHANGED di
    /\ UNCHANGED <<args, entites, ei, size, refbox, wi, result, refboxes, fs,
                   fs0, fast, full, failed, owner, processed, calc_vars>>

Next ==
    \/ Main
    \/ DirBegin
    \/ EntityNext
    \/ ReadFast
    \/ ReadFull
    \/ TrySize
    \/ NewRefBox
    \/ CreateWld
    \/ WriteWld
    \/ CreatePrj
    \/ WritePrj
    \/ Match
    \/ WriteJson

Spec == Init /\ [][Next]_vars

----------------------------------------------------------------------------
(* SpecCalc: RefBox::new and RefBox::world_file_values on every raster     *)
(* size up to MaxSize and on the world extent with its min and max entries *)
(* in either order.                                                        *)

\* bound on the width and the height of a raster
MaxSize == 4

\* CRS_BBOX and the same extent with min and max swapped on an axis
Extents ==
    {<<CRS_BBOX[1], CRS_BBOX[2], CRS_BBOX[3], CRS_BBOX[4]>>,
     <<CRS_BBOX[3], CRS_BBOX[2], CRS_BBOX[1], CRS_BBOX[4]>>,
     <<CRS_BBOX[1], CRS_BBOX[4], CRS_BBOX[3], CRS_BBOX[2]>>,
     <<CRS_BBOX[3], CRS_BBOX[4], CRS_BBOX[1], CRS_BBOX[2]>>}

IdleRun ==
    /\ free = << >> /\ json = FALSE /\ pc = "off" /\ di = 1
    /\ entites = << >> /\ ei = 1 /\ size = None /\ refbox = None /\ wi = 0
    /\ result = None /\ refboxes = << >> /\ fs = << >> /\ json_file = None
    /\ cause = "none" /\ exit_status = 0 /\ fs0 = << >> /\ fast = None
    /\ full = None /\ failed = "none" /\ owner = << >>
    /\ processed = << >> /\ summarised = {}

InitCalc ==
    /\ IdleRun
    /\ c_pc = "size"
    /\ c_width \in 0 .. MaxSize
    /\ c_height \in 0 .. MaxSize
    /\ c_crs \in Extents
    /\ c_refbox = None
    /\ c_values = << >>

\* RefBox::new(width, height)
CalcNew ==
    /\ c_pc = "size"
    /\ c_refbox' = Some(RefBoxNew(c_width, c_height, c_crs))
    /\ c_pc' = "box"
    /\ UNCHANGED <<run_vars, c_width, c_height, c_crs, c_values>>

\* refbox.world_file_values()
CalcValues ==
    /\ c_pc = "box"
    /\ c_values' = world_file_values(c_refbox.v)
    /\ c_pc' = "values"
    /\ UNCHANGED <<run_vars, c_width, c_height, c_crs, c_refbox>>

NextCalc ==
    \/ CalcNew
    \/ CalcValues

SpecCalc == InitCalc /\ [][NextCalc]_vars

----------------------------------------------------------------------------
(* Properties *)

\* 1e-9
Tolerance == Fin(FALSE, <<1>>, Big(1000000000))

Midpoint(a, b) == FDiv(FAdd(a, b), Two)

\* the calculator has produced the box of a raster with positive sides
Boxed == c_pc # "size" /\ c_width > 0 /\ c_height > 0

\* C1: for every raster size with width > 0 and height > 0 the bounding
\* box of RefBox::new has the aspect ratio of the image, within a relative
\* tolerance of 1e-9.
C1_AspectRatio ==
    (Boxed /\ c_crs = CRS_BBOX) =>
        LET bbox  == c_refbox.v.bbox
            ratio == FDiv(AsF64(c_width), AsF64(c_height))
            got   == FDiv(bbox_width(bbox), bbox_height(bbox))
        IN  FLe(abs(FSub(got, ratio)), FMul(Tolerance, ratio))

\* one of the sides of a raster size is zero
Degenerate(wh) == wh[1] = 0 \/ wh[2] = 0

\* C2: a raster size with width = 0 or height = 0 is rejected with an
\* error: no RefBox is built from it, no sidecar file is written from it,
\* and no bounding box or world file value is ever NaN or infinite.
C2_ZeroSizeRejected ==
    /\ (size # None /\ size.ok /\ Degenerate(size.v)) =>
          /\ refbox = None
          /\ fs = fs0
          /\ pc = "ret" => ~result.ok
    /\ refbox # None =>
          /\ is_finite(refbox.bbox.minx) /\ is_finite(refbox.bbox.miny)
          /\ is_finite(refbox.bbox.maxx) /\ is_finite(refbox.bbox.maxy)
    /\ \A p \in DOMAIN fs :
          p.ext = Some(WLD) => \A i \in DOMAIN fs[p] : is_finite(fs[p][i])

\* C3: for every raster size with width > 0 and height > 0 the bounding
\* box of RefBox::new lies inside CRS_BBOX.
C3_InsideWorld ==
    (Boxed /\ c_crs = CRS_BBOX) =>
        LET bbox == c_refbox.v.bbox
        IN  /\ FGe(bbox.minx, CRS_BBOX[1])
            /\ FGe(bbox.miny, CRS_BBOX[2])
            /\ FLe(bbox.maxx, CRS_BBOX[3])
            /\ FLe(bbox.maxy, CRS_BBOX[4])

\* C4: for every raster size with width > 0 and height > 0 the bounding
\* box of RefBox::new is centred on the midpoint of the world extent, also
\* when the min and max entries of the extent are swapped.
C4_Centred ==
    Boxed =>
        LET bbox == c_refbox.v.bbox
        IN  /\ FEq(Midpoint(bbox.minx, bbox.maxx),
                   Midpoint(c_crs[1], c_crs[3]))
            /\ FEq(Midpoint(bbox.miny, bbox.maxy),
                   Midpoint(c_crs[2], c_crs[4]))

C4_Witness ==
    /\ c_pc = "box" /\ c_width = 1 /\ c_height = 2
    /\ c_crs = <<CRS_BBOX[3], CRS_BBOX[4], CRS_BBOX[1], CRS_BBOX[2]>>

\* read_image_size has returned an error to the current call
ReadFailed == size # None /\ ~size.ok

\* C5: if read_image_size fails, pseudo_georef returns that error and does
\* nothing else: the sidecar files are as they were when the call began.
C5_NoSidecarOnReadError ==
    ReadFailed =>
        /\ pc \in {"size", "ret", "panic"}
        /\ fs = fs0
        /\ pc # "size" => result = size

\* a read error returned while a world file of the same image exists
C5_Witness ==
    /\ pc = "ret" /\ ReadFailed
    /\ with_extension(imagepath, WLD) \in DOMAIN fs

\* C6: an error returned by pseudo_georef makes the run panic at once;
\* after the panic nothing changes (no other image is processed, no file
\* is written), and the summary of the directory being processed was not
\* written.
C6_FailFast ==
    /\ [][/\ (pc = "ret" /\ ~result.ok) =>
                /\ pc' = "panic"
                /\ UNCHANGED <<fs, json_file, refboxes, processed, summarised>>
          /\ pc = "panic" => UNCHANGED vars]_vars
    /\ []((pc = "panic" /\ cause = "pseudo_georef") => di \notin summarised)

\* a panic on an image with another image and another directory still to do
C6_Witness ==
    /\ pc = "panic" /\ cause = "pseudo_georef" /\ json
    /\ ei < Len(entites) /\ di < Len(free)

\* C7: read_image_size returns the dimensions of the fast path without
\* running the full decode when the fast path succeeds; when it fails the
\* full decode is run and read_image_size returns what the full decode
\* answers, so it fails exactly when the fallback fails.
C7_FastPathSwallowed ==
    /\ pc = "read_full" => (fast # None /\ ~fast.ok /\ size = None)
    /\ (fast # None /\ pc # "read_full") =>
          IF fast.ok THEN size = fast /\ full = None
          ELSE full # None /\ size = full

\* the fast path failed and the fallback succeeded
C7_Witness == pc = "size" /\ fast = Err("Image") /\ full # None /\ full.ok

\* C8: two distinct images never have a sidecar path in common.
C8_DisjointSidecars == \A p \in DOMAIN owner : Cardinality(owner[p]) <= 1

\* C9: if creating the world file or writing one of its lines fails,
\* pseudo_georef returns an I/O error, the projection file of the image is
\* not created afterwards, and no record of the image is pushed.
C9_WorldFileFailure ==
    failed \in {"create_wld", "write_wld"} =>
        LET p == with_extension(imagepath, PRJ)
        IN  /\ pc \in {"ret", "panic"}
            /\ result = Err("Io")
            /\ p \in DOMAIN fs <=> p \in DOMAIN fs0
            /\ p \in DOMAIN fs => fs[p] = fs0[p]
            /\ \A i \in DOMAIN refboxes :
                  refboxes[i].filename # Some(imagepath)

\* the third line of a world file could not be written
C9_Witness == pc = "panic" /\ failed = "write_wld" /\ wi = 2

\* no directory is given twice
Distinct(dirs) ==
    \A i, j \in DOMAIN dirs : dirs[i] = dirs[j] => i = j

\* C10: when a summary is requested and the run completes over one or more
\* directories (here: each given once), the summary file holds one record
\* for every image processed in the run, in processing order.
C10_SummaryComplete ==
    (pc = "exit" /\ json /\ free # << >> /\ Distinct(free)) =>
        /\ json_file # None
        /\ [i \in DOMAIN json_file.v |-> json_file.v[i].filename] = processed

=============================================================================
